---- MODULE Spec2Model ----
(***************************************************************************)
(* The dependency resolver of hpkl (package app): Resolver.Resolve with    *)
(* its memo cache, Resolver.Deduplicate / MajorVersionPackage,             *)
(* Resolver.Exists / Download, and the two transports' ResolveMetadata.    *)
(*                                                                         *)
(* A Go string is a sequence of tokens (each token a piece of text that    *)
(* no operation of the program splits); a Go map is a function whose       *)
(* DOMAIN is its key set; ranging over a map visits the keys in any order. *)
(***************************************************************************)
EXTENDS Integers, Sequences, FiniteSets, TLC

VARIABLES
    cache,       \* Resolver.cache: uri -> *Metadata
    stack,       \* the active Resolve invocations, outermost first
    rstate,      \* "idle" | "running" | "failing" | "crashed"
    roots,       \* the argument of the outermost Resolve call
    ret,         \* what the last outermost Resolve call returned
    calls,       \* Resolve calls made on this resolver so far
    fresh,       \* the cache was empty when the current call started
    fetched,     \* uri -> number of ResolveMetadata calls that returned Metadata
    failedUri,   \* the URIs whose ResolveMetadata returned an error in this call
    config,      \* AppConfig: the process-wide PlainHttp setting
    tIn,         \* a transport call on its own: transport, uri, plainHttp, response
    tOut,        \* what that call returned ("none" before it ran)
    dOrig,       \* the map the caller first passed to Deduplicate
    dIn,         \* Deduplicate's argument (dependecies)
    dTodo,       \* keys of the argument the first loop has not visited yet
    dVersioned,  \* Deduplicate's versioned map
    dRekey,      \* keys of versioned the second loop has not visited yet
    dResult,     \* Deduplicate's result map
    dpc,         \* "idle" | "loop" | "rekey" | "done" | "error" | "panic"
    dPass,       \* 1: Deduplicate(x); 2: Deduplicate applied to its own result
    dFirst,      \* what the first application returned
    batch,       \* the map the caller passes to Download
    dirs,        \* the directories on disk
    files,       \* the files on disk: <<directory, file name>> -> content
    lTodo,       \* keys of the batch the loop of Download has not visited yet
    lpc,         \* "idle" | "loop" | "done" | "error"
    lRun,        \* Download calls made so far
    lArchives,   \* ResolveArchive calls made by the current Download call
    lPrevOk,     \* the previous Download call returned nil
    lEverFailed, \* some earlier Download call returned an error
    gos,         \* goroutine -> its Resolve call when calls run concurrently
    raced        \* URIs two goroutines both found absent before either inserted

rvars == <<cache, stack, rstate, roots, ret, calls, fresh, fetched, failedUri>>

tvars == <<tIn, tOut>>

dvars == <<dOrig, dIn, dTodo, dVersioned, dRekey, dResult, dpc, dPass, dFirst>>

lvars == <<batch, dirs, files, lTodo, lpc, lRun, lArchives, lPrevOk, lEverFailed>>

cvars == <<gos, raced>>

vars == <<rvars, config, tvars, dvars, lvars, cvars>>

\* What Resolve, Deduplicate, Download, a lone transport call never touch.
notResolve == <<config, tvars, dvars, lvars, cvars>>
notDedup == <<rvars, config, tvars, lvars, cvars>>
notDownload == <<rvars, config, tvars, dvars, cvars>>
notTransport == <<rvars, dvars, lvars, cvars>>

-----------------------------------------------------------------------------
(* Bounds *)

MaxCalls == 2
MaxDeps == 2
MaxDepth == 5
MaxIn == 3
MaxBatch == 2
MaxRuns == 2
MaxGoDeps == 2

-----------------------------------------------------------------------------
(* Maps *)

EmptyMap == <<>>

MapPut(m, k, v) == [x \in (DOMAIN m) \cup {k} |-> IF x = k THEN v ELSE m[x]]

MapMerge(m, s) ==
    [x \in (DOMAIN m) \cup (DOMAIN s) |-> IF x \in DOMAIN s THEN s[x] ELSE m[x]]

Range(m) == {m[x] : x \in DOMAIN m}

-----------------------------------------------------------------------------
(* Strings *)

HasSuffix(s, t) == Len(s) >= 1 /\ s[Len(s)] = t

Contains(s, t) == \E i \in 1..Len(s) : s[i] = t

\* net/url.Parse on the strings of this model: scheme "://" host path...;
\* a string with no scheme before "://" is rejected ("missing protocol scheme").
UrlParses(u) == Len(u) >= 3 /\ u[2] = "://" /\ u[1] # "://"

UrlParse(u) ==
    [Scheme |-> u[1], Host |-> u[3], Path |-> SubSeq(u, 4, Len(u))]

UrlString(p) == <<p.Scheme, "://", p.Host>> \o p.Path

-----------------------------------------------------------------------------
(* The remote side: package URIs, aliases, metadata documents *)

\* Version strings, one character per token.
V100 == <<"1", ".", "0", ".", "0">>
V120 == <<"1", ".", "2", ".", "0">>
V1100 == <<"1", ".", "1", "0", ".", "0">>
V200 == <<"2", ".", "0", ".", "0">>
V1000 == <<"1", "0", ".", "0", ".", "0">>
V120b == V120 \o <<"+", "b">>
VBad == <<"x">>

\* A package URI: scheme://host/name@version.
PkgUri(scheme, host, name, version) ==
    <<scheme, "://", host, "/", name, "@">> \o version

\* The parts of a URI of that shape.
NameOf(uri) == uri[5]
VersionOf(uri) == SubSeq(uri, 7, Len(uri))

UriA == PkgUri("package", "h", "a", V100)
UriB == PkgUri("package", "h", "b", V100)
UriC == PkgUri("package", "h", "c", V100)

Uris == {UriA, UriB, UriC}

\* What a declaring document can hold: alias -> uri.
DepPool ==
    { [Name |-> <<"a">>, Uri |-> UriA],
      [Name |-> <<"b", ".oci">>, Uri |-> UriB],
      [Name |-> <<"c", ".plain">>, Uri |-> UriC] }

\* A dependencies map as the wire or the project file gives it: the key is the
\* alias, the record's own name is whatever the declaration carried.
DepMap(S, named) ==
    [n \in {d.Name : d \in S} |->
        LET d == CHOOSE e \in S : e.Name = n
        IN [Uri |-> d.Uri, Name |-> IF named THEN n ELSE <<>>]]

DepSets == {S \in SUBSET DepPool : Cardinality(S) <= MaxDeps}

\* The bytes a remote can answer with: a metadata object, the JSON literal
\* null, or bytes that are not JSON.
ZipUrlOf(uri) == <<"https">> \o Tail(uri) \o <<".zip">>

\* For a request of uri the object is a metadata document of that package.
ObjectBodies(uri) ==
    {[kind |-> "object", name |-> NameOf(uri), packageUri |-> uri,
      version |-> VersionOf(uri), packageZipUrl |-> ZipUrlOf(uri),
      dependencies |-> DepMap(S, FALSE)] : S \in DepSets}

Bodies(uri) == ObjectBodies(uri) \cup {[kind |-> "null"], [kind |-> "malformed"]}

StatusCodes == {200, 299, 300, 301, 404}

Responses(uri) ==
    [neterr : {"none", "get", "read"}, status : StatusCodes, body : Bodies(uri)]

\* A project that declares the package a twice: under its plain alias, and
\* under an alias that carries the registry hint.
TwoAliases == {[Name |-> <<"a">>, Uri |-> UriA], [Name |-> <<"a", ".oci">>, Uri |-> UriA]}

\* What a project can declare.
RootMaps == {DepMap(S, TRUE) : S \in DepSets \cup {TwoAliases}}

-----------------------------------------------------------------------------
(* Transports *)

OCI == 0
HTTP == 1

Sha256(bytes) == <<"sha256", bytes>>

\* The zero Metadata, as json.Unmarshal allocates it before filling it in.
ZeroMetadata ==
    [Name |-> <<>>, PackageUri |-> <<>>, Version |-> <<>>, PackageZipUrl |-> <<>>,
     Dependencies |-> EmptyMap, ResolverType |-> OCI, PlainHttp |-> FALSE,
     Checksum |-> <<>>, Source |-> [kind |-> "nil"]]

\* json.Unmarshal(body, &metadata) with metadata a nil *Metadata: bytes that
\* are not JSON give an error, the literal null leaves the pointer nil, an
\* object gives a Metadata holding the document's fields.
Unmarshal(body) ==
    CASE body.kind = "malformed" -> [err |-> TRUE, isNil |-> TRUE, md |-> ZeroMetadata]
      [] body.kind = "null" -> [err |-> FALSE, isNil |-> TRUE, md |-> ZeroMetadata]
      [] OTHER ->
            [err |-> FALSE, isNil |-> FALSE,
             md |-> [ZeroMetadata EXCEPT !.Name = body.name,
                                         !.PackageUri = body.packageUri,
                                         !.Version = body.version,
                                         !.PackageZipUrl = body.packageZipUrl,
                                         !.Dependencies = body.dependencies]]

Failure(why) == [kind |-> "err", err |-> why]
Panic(why) == [kind |-> "panic", err |-> why]
Success(md) == [kind |-> "ok", md |-> md]

\* The status test of HttpResolver.ResolveMetadata.
HttpStatusFails(status) == status > 300

\* The URL HttpResolver.ResolveMetadata requests.
HttpRequestUrl(cfgPlain, uri, plainHttp) ==
    UrlString([UrlParse(uri) EXCEPT
                 !.Scheme = IF cfgPlain \/ plainHttp THEN "http" ELSE "https"])

HttpResolveMetadata(cfgPlain, uri, plainHttp, resp) ==
    IF ~UrlParses(uri) THEN Failure("url.Parse")
    ELSE IF resp.neterr = "get" THEN Failure("http.Get")
    ELSE IF HttpStatusFails(resp.status) THEN Failure("status")
    ELSE IF resp.neterr = "read" THEN Failure("io.ReadAll")
    ELSE LET u == Unmarshal(resp.body) IN
         IF u.err THEN Failure("json.Unmarshal")
         ELSE IF u.isNil THEN Panic("nil dereference")
         ELSE Success([u.md EXCEPT !.ResolverType = HTTP,
                                    !.Source = resp.body,
                                    !.PlainHttp = plainHttp,
                                    !.Checksum = Sha256(resp.body)])

\* pklutils.PklUriToRef: the registry reference of a package URI.
PklUriToRefFails(uri) == ~UrlParses(uri)

\* The registry client OciResolver.ResolveMetadata pulls with.
OciClient(plainHttp) == IF plainHttp THEN "plainClient" ELSE "client"

\* Whether a registry client of NewOciResolver speaks plaintext: plainClient
\* always does, client does when the process-wide setting says so.
ClientIsPlain(client, cfgPlain) == client = "plainClient" \/ cfgPlain

OciResolveMetadata(cfgPlain, uri, plainHttp, resp) ==
    IF PklUriToRefFails(uri) THEN Failure("PklUriToRef")
    ELSE IF resp.neterr # "none" THEN Failure("client.Pull")
    ELSE LET u == Unmarshal(resp.body) IN
         IF u.err THEN Failure("json.Unmarshal")
         ELSE IF u.isNil THEN Panic("nil dereference")
         ELSE Success([u.md EXCEPT !.ResolverType = OCI,
                                    !.Source = resp.body,
                                    !.Checksum = Sha256(resp.body)])

\* What the remote did on an archive request: "none" is success.
ArchiveOutcomes == {"none", "get", "read"}

OciResolveArchive(metadata, neterr) ==
    IF PklUriToRefFails(metadata.PackageUri) THEN Failure("PklUriToRef")
    ELSE IF neterr # "none" THEN Failure("client.Pull")
    ELSE [kind |-> "ok",
          bytes |-> [kind |-> "archive",
                     from |-> <<OciClient(metadata.PlainHttp)>> \o metadata.PackageUri]]

HttpResolveArchive(metadata, neterr) ==
    IF neterr = "get" THEN Failure("http.Get")
    ELSE IF neterr = "read" THEN Failure("io.ReadAll")
    ELSE [kind |-> "ok",
          bytes |-> [kind |-> "archive", from |-> metadata.PackageZipUrl]]

\* DependencyResolver.ResolveArchive, dispatched as Download does.
ResolveArchive(metadata, neterr) ==
    IF metadata.ResolverType = OCI
    THEN OciResolveArchive(metadata, neterr)
    ELSE HttpResolveArchive(metadata, neterr)

\* DependencyResolver.ResolveMetadata, dispatched on the transport.
ResolveMetadata(transport, cfgPlain, uri, plainHttp, resp) ==
    IF transport = OCI
    THEN OciResolveMetadata(cfgPlain, uri, plainHttp, resp)
    ELSE HttpResolveMetadata(cfgPlain, uri, plainHttp, resp)

-----------------------------------------------------------------------------
(* Resolver.Resolve *)

\* The transport Resolve picks for an alias, and the plaintext preference.
PickResolver(dependencyName) ==
    IF HasSuffix(dependencyName, ".oci") THEN OCI ELSE HTTP

PickPlain(dependencyName) == Contains(dependencyName, ".plain")

\* A variant of the loop below that leaves the entries as the document had them.
BackFillForgotten(md) == md

\* The loop that copies each key of metadata.Dependencies into the entry's Name.
BackFill(md) ==
    [md EXCEPT !.Dependencies =
        [n \in DOMAIN md.Dependencies |-> [md.Dependencies[n] EXCEPT !.Name = n]]]

\* An invocation of Resolve: its argument, the keys its loop has not visited
\* yet, its result map, and (for the reader of a trace) the URI whose
\* metadata.Dependencies it was called on, <<>> for the caller's own call.
NewFrame(dependencies, of) ==
    [deps |-> dependencies, todo |-> DOMAIN dependencies, result |-> EmptyMap,
     of |-> of]

Top == stack[Len(stack)]

SetTop(f) == [stack EXCEPT ![Len(stack)] = f]

\* Variants of the operators below, each changed the way a slip in the code
\* would change it; the properties further down are checked against them.
MemoizedNever(c, uri) == FALSE

CacheInsertForgotten(c, uri, md) == c

CacheOnErrorStores(c, uri) == MapPut(c, uri, ZeroMetadata)

MergeSubsForgotten(result, subs) == result

FetchErrorKeepsGoing == "running"

\* metadata, ok := r.cache[dependency.Uri]
Memoized(c, uri) == uri \in DOMAIN c

\* r.cache after ResolveMetadata returned metadata for uri.
CacheInsert(c, uri, md) == MapPut(c, uri, md)

\* r.cache after ResolveMetadata returned an error for uri: Resolve returns
\* before it reaches the insertion.
CacheOnError(c, uri) == c

\* for u, d := range subs { result[u] = d }
MergeSubs(result, subs) == MapMerge(result, subs)

\* What the invocation does once ResolveMetadata returned an error: it is on
\* its way out with nil, err.
FetchError == "failing"

\* The frames after a fetched metadata was stored: the current frame records
\* it, and a Resolve of its dependencies starts when it has any.
AfterStore(f, uri, md) ==
    IF Cardinality(DOMAIN md.Dependencies) > 0
    THEN Append(SetTop(f), NewFrame(md.Dependencies, uri))
    ELSE SetTop(f)

\* The goroutines that may call Resolve on the one resolver at the same time.
Goroutines == {"g1", "g2"}

\* A goroutine that has not called Resolve.
NoCall == [pc |-> "idle", stack |-> <<>>, cur |-> <<>>, got |-> ZeroMetadata]

NewResolver ==
    /\ cache = EmptyMap
    /\ stack = <<>>
    /\ rstate = "idle"
    /\ roots = EmptyMap
    /\ ret = [kind |-> "none"]
    /\ calls = 0
    /\ fresh = TRUE
    /\ fetched = [u \in Uris |-> 0]
    /\ failedUri = {}
    /\ gos = [g \in Goroutines |-> NoCall]
    /\ raced = {}

\* NewAppConfig leaves PlainHttp false.
NewAppConfig == config = [PlainHttp |-> FALSE]

NoTransportCall == tIn = [kind |-> "none"] /\ tOut = [kind |-> "none"]

NoDedup ==
    /\ dOrig = EmptyMap /\ dIn = EmptyMap /\ dTodo = {} /\ dVersioned = EmptyMap
    /\ dRekey = {} /\ dResult = EmptyMap /\ dpc = "idle" /\ dPass = 0
    /\ dFirst = EmptyMap

NoDownload ==
    /\ batch = EmptyMap /\ dirs = {} /\ files = EmptyMap /\ lTodo = {}
    /\ lpc = "idle" /\ lRun = 0 /\ lArchives = 0 /\ lPrevOk = FALSE
    /\ lEverFailed = FALSE

\* The caller invokes r.Resolve(dependencies).
CallResolve ==
    /\ rstate = "idle"
    /\ calls < MaxCalls
    /\ \E dependencies \in RootMaps :
          /\ roots' = dependencies
          /\ stack' = <<NewFrame(dependencies, <<>>)>>
    /\ rstate' = "running"
    /\ ret' = [kind |-> "none"]
    /\ calls' = calls + 1
    /\ fresh' = (DOMAIN cache = {})
    /\ failedUri' = {}
    /\ UNCHANGED <<cache, fetched, notResolve>>

\* One iteration of the loop for a dependency whose URI is memoized.
IterCached ==
    /\ rstate = "running"
    /\ \E name \in Top.todo :
          LET dependency == Top.deps[name] IN
          /\ Memoized(cache, dependency.Uri)
          /\ stack' = SetTop([Top EXCEPT
                                !.todo = @ \ {name},
                                !.result = MapPut(@, dependency.Uri, cache[dependency.Uri])])
    /\ UNCHANGED <<cache, rstate, roots, ret, calls, fresh, fetched, failedUri,
                   notResolve>>

\* One iteration for a dependency that is not memoized and whose
\* ResolveMetadata returns Metadata.
IterFetchOk ==
    /\ rstate = "running"
    /\ \E name \in {n \in Top.todo : ~Memoized(cache, Top.deps[n].Uri)} :
       \E resp \in Responses(Top.deps[name].Uri) :
          LET dependency == Top.deps[name]
              out == ResolveMetadata(PickResolver(dependency.Name), config.PlainHttp,
                                     dependency.Uri, PickPlain(dependency.Name), resp)
          IN
          /\ out.kind = "ok"
          /\ LET metadata == BackFill(out.md) IN
             /\ cache' = CacheInsert(cache, dependency.Uri, metadata)
             /\ stack' = AfterStore([Top EXCEPT
                                        !.todo = @ \ {name},
                                        !.result = MapPut(@, dependency.Uri, metadata)],
                                    dependency.Uri, metadata)
             /\ Len(stack') <= MaxDepth
          /\ fetched' = [fetched EXCEPT ![dependency.Uri] = @ + 1]
    /\ UNCHANGED <<rstate, roots, ret, calls, fresh, failedUri, notResolve>>

\* One iteration whose ResolveMetadata returns an error: the invocation
\* is about to return nil, err.
IterFetchErr ==
    /\ rstate = "running"
    /\ \E name \in {n \in Top.todo : ~Memoized(cache, Top.deps[n].Uri)} :
       \E resp \in Responses(Top.deps[name].Uri) :
          LET dependency == Top.deps[name]
              out == ResolveMetadata(PickResolver(dependency.Name), config.PlainHttp,
                                     dependency.Uri, PickPlain(dependency.Name), resp)
          IN
          /\ out.kind = "err"
          /\ failedUri' = failedUri \cup {dependency.Uri}
          /\ cache' = CacheOnError(cache, dependency.Uri)
          /\ stack' = SetTop([Top EXCEPT !.todo = @ \ {name}])
    /\ rstate' = FetchError
    /\ UNCHANGED <<roots, ret, calls, fresh, fetched, notResolve>>

\* One iteration whose ResolveMetadata dereferences the nil *Metadata that
\* json.Unmarshal leaves for the literal null: the goroutine panics.
IterFetchPanic ==
    /\ rstate = "running"
    /\ \E name \in {n \in Top.todo : ~Memoized(cache, Top.deps[n].Uri)} :
       \E resp \in Responses(Top.deps[name].Uri) :
          LET dependency == Top.deps[name]
              out == ResolveMetadata(PickResolver(dependency.Name), config.PlainHttp,
                                     dependency.Uri, PickPlain(dependency.Name), resp)
          IN
          /\ out.kind = "panic"
          /\ stack' = SetTop([Top EXCEPT !.todo = @ \ {name}])
    /\ rstate' = "crashed"
    /\ UNCHANGED <<cache, roots, ret, calls, fresh, fetched, failedUri, notResolve>>

\* The loop of the innermost invocation is over: it returns result, nil, and
\* its caller merges the returned map into its own result.
ReturnOk ==
    /\ rstate = "running"
    /\ Top.todo = {}
    /\ IF Len(stack) = 1
       THEN /\ ret' = [kind |-> "ok", result |-> Top.result]
            /\ rstate' = "idle"
            /\ stack' = <<>>
       ELSE /\ LET caller == stack[Len(stack) - 1] IN
               stack' = [SubSeq(stack, 1, Len(stack) - 1) EXCEPT
                            ![Len(stack) - 1] =
                                [caller EXCEPT !.result = MergeSubs(@, Top.result)]]
            /\ UNCHANGED <<ret, rstate>>
    /\ UNCHANGED <<cache, roots, calls, fresh, fetched, failedUri, notResolve>>

\* The innermost invocation returns nil, err; its caller, if any, does the same.
ReturnErr ==
    /\ rstate = "failing"
    /\ stack' = SubSeq(stack, 1, Len(stack) - 1)
    /\ IF Len(stack) = 1
       THEN ret' = [kind |-> "err"] /\ rstate' = "idle"
       ELSE UNCHANGED <<ret, rstate>>
    /\ UNCHANGED <<cache, roots, calls, fresh, fetched, failedUri, notResolve>>

-----------------------------------------------------------------------------
(* Resolve called from two goroutines on one resolver. Nothing in Resolve
   synchronises: the lookup in r.cache, the ResolveMetadata call and the
   insertion into r.cache are separate steps of a goroutine, and the steps of
   the two goroutines interleave. *)

\* What the concurrent calls never touch.
notGo == <<stack, rstate, roots, ret, calls, fresh, failedUri,
           config, tvars, dvars, lvars>>

\* The concurrent runs are over the packages a and b: the dependency maps
\* the goroutines pass, and the answers of the remote.
GoUris == {UriA, UriB}

GoDeps(m) ==
    /\ Cardinality(DOMAIN m) <= MaxGoDeps
    /\ \A n \in DOMAIN m : m[n].Uri \in GoUris

GoRootMaps == {m \in RootMaps : GoDeps(m)}

GoResponses(uri) ==
    {resp \in Responses(uri) :
        resp.body.kind = "object" => GoDeps(resp.body.dependencies)}

\* What the ResolveMetadata call Resolve makes for dependency can come to.
GoOutcomes(dependency) ==
    {ResolveMetadata(PickResolver(dependency.Name), config.PlainHttp,
                     dependency.Uri, PickPlain(dependency.Name), resp) :
        resp \in GoResponses(dependency.Uri)}

GoTop(g) == gos[g].stack[Len(gos[g].stack)]

GoSetTop(g, f) == [gos[g].stack EXCEPT ![Len(gos[g].stack)] = f]

\* The URI goroutine g found absent and has not inserted yet, if any.
GoPending(g) ==
    IF gos[g].pc \in {"fetch", "insert"}
    THEN {GoTop(g).deps[gos[g].cur].Uri}
    ELSE {}

\* An unrecovered panic, or a fatal error of the runtime, ends the process.
Fatal == [g \in Goroutines |-> [gos[g] EXCEPT !.pc = "fatal"]]

\* Goroutine g invokes r.Resolve(dependencies).
GoCall(g) ==
    /\ gos[g].pc = "idle"
    /\ \E dependencies \in GoRootMaps :
          gos' = [gos EXCEPT ![g] = [NoCall EXCEPT
                                        !.pc = "loop",
                                        !.stack = <<NewFrame(dependencies, <<>>)>>]]
    /\ UNCHANGED <<cache, fetched, raced, notGo>>

\* metadata, ok := r.cache[dependency.Uri] with ok true: the else branch.
GoLookupHit(g) ==
    /\ gos[g].pc = "loop"
    /\ \E name \in GoTop(g).todo :
          LET dependency == GoTop(g).deps[name] IN
          /\ Memoized(cache, dependency.Uri)
          /\ gos' = [gos EXCEPT ![g].stack =
                        GoSetTop(g, [GoTop(g) EXCEPT
                                        !.todo = @ \ {name},
                                        !.result = MapPut(@, dependency.Uri,
                                                          cache[dependency.Uri])])]
    /\ UNCHANGED <<cache, fetched, raced, notGo>>

\* The same lookup with ok false: the goroutine goes on to fetch.
GoLookupMiss(g) ==
    /\ gos[g].pc = "loop"
    /\ \E name \in GoTop(g).todo :
          LET dependency == GoTop(g).deps[name] IN
          /\ ~Memoized(cache, dependency.Uri)
          /\ gos' = [gos EXCEPT ![g].pc = "fetch", ![g].cur = name]
          /\ raced' = IF \E h \in Goroutines \ {g} : dependency.Uri \in GoPending(h)
                      THEN raced \cup {dependency.Uri}
                      ELSE raced
    /\ UNCHANGED <<cache, fetched, notGo>>

\* resolver.ResolveMetadata returns Metadata; the names are back-filled.
GoFetchOk(g) ==
    /\ gos[g].pc = "fetch"
    /\ LET dependency == GoTop(g).deps[gos[g].cur] IN
       \E out \in GoOutcomes(dependency) :
          /\ out.kind = "ok"
          /\ gos' = [gos EXCEPT ![g].pc = "insert", ![g].got = BackFill(out.md)]
          /\ fetched' = [fetched EXCEPT ![dependency.Uri] = @ + 1]
    /\ UNCHANGED <<cache, raced, notGo>>

\* resolver.ResolveMetadata returns an error: every invocation of the
\* goroutine returns nil, err.
GoFetchErr(g) ==
    /\ gos[g].pc = "fetch"
    /\ \E out \in GoOutcomes(GoTop(g).deps[gos[g].cur]) : out.kind = "err"
    /\ gos' = [gos EXCEPT ![g] = [NoCall EXCEPT !.pc = "failed"]]
    /\ UNCHANGED <<cache, fetched, raced, notGo>>

\* resolver.ResolveMetadata dereferences nil: the panic ends the process.
GoFetchPanic(g) ==
    /\ gos[g].pc = "fetch"
    /\ \E out \in GoOutcomes(GoTop(g).deps[gos[g].cur]) : out.kind = "panic"
    /\ gos' = Fatal
    /\ UNCHANGED <<cache, fetched, raced, notGo>>

\* r.cache[dependency.Uri] = metadata; result[dependency.Uri] = metadata; and
\* the nested Resolve starts when the metadata has dependencies.
GoInsert(g) ==
    /\ gos[g].pc = "insert"
    /\ LET dependency == GoTop(g).deps[gos[g].cur]
           metadata == gos[g].got
           stored == GoSetTop(g, [GoTop(g) EXCEPT
                                     !.todo = @ \ {gos[g].cur},
                                     !.result = MapPut(@, dependency.Uri, metadata)])
       IN
       /\ cache' = CacheInsert(cache, dependency.Uri, metadata)
       /\ gos' = [gos EXCEPT
                    ![g] = [NoCall EXCEPT
                              !.pc = "loop",
                              !.stack =
                                  IF Cardinality(DOMAIN metadata.Dependencies) > 0
                                  THEN Append(stored, NewFrame(metadata.Dependencies,
                                                               dependency.Uri))
                                  ELSE stored]]
    /\ UNCHANGED <<fetched, raced, notGo>>

\* The loop of the innermost invocation of g is over: return result, nil.
GoReturn(g) ==
    /\ gos[g].pc = "loop"
    /\ GoTop(g).todo = {}
    /\ LET st == gos[g].stack IN
       IF Len(st) = 1
       THEN gos' = [gos EXCEPT ![g] = [NoCall EXCEPT !.pc = "done"]]
       ELSE gos' = [gos EXCEPT ![g].stack =
                       [SubSeq(st, 1, Len(st) - 1) EXCEPT
                           ![Len(st) - 1] =
                               [st[Len(st) - 1] EXCEPT
                                   !.result = MergeSubs(@, GoTop(g).result)]]]
    /\ UNCHANGED <<cache, fetched, raced, notGo>>

\* A goroutine about to write r.cache while another is about to read or write
\* it: a data race on a Go map. Besides the outcomes in which the two accesses
\* happen one after the other (the steps above), the runtime may detect the
\* concurrent access and end the process with a fatal error.
GoRace ==
    /\ \E g \in Goroutines, h \in Goroutines :
          /\ g # h
          /\ gos[g].pc = "insert"
          /\ \/ gos[h].pc = "insert"
             \/ gos[h].pc = "loop" /\ GoTop(h).todo # {}
    /\ gos' = Fatal
    /\ UNCHANGED <<cache, fetched, raced, notGo>>

GoNext ==
    \/ \E g \in Goroutines : GoCall(g)
    \/ \E g \in Goroutines : GoLookupHit(g)
    \/ \E g \in Goroutines : GoLookupMiss(g)
    \/ \E g \in Goroutines : GoFetchOk(g)
    \/ \E g \in Goroutines : GoFetchErr(g)
    \/ \E g \in Goroutines : GoFetchPanic(g)
    \/ \E g \in Goroutines : GoInsert(g)
    \/ \E g \in Goroutines : GoReturn(g)
    \/ GoRace

-----------------------------------------------------------------------------
(* Semantic versions (github.com/Masterminds/semver/v3, as MustParse and
   GreaterThan are used here). The version strings of this model have the
   form [v]MAJOR[.MINOR[.PATCH]][+BUILD]. *)

DigitChars == <<"0", "1", "2", "3", "4", "5", "6", "7", "8", "9">>

HexChars == DigitChars \o <<"a", "b", "c", "d", "e", "f">>

IsDigit(c) == \E i \in 1..10 : DigitChars[i] = c

DigitVal(c) == (CHOOSE i \in 1..10 : DigitChars[i] = c) - 1

RECURSIVE DecValue(_)
DecValue(ds) ==
    IF ds = <<>> THEN 0
    ELSE DecValue(SubSeq(ds, 1, Len(ds) - 1)) * 10 + DigitVal(ds[Len(ds)])

\* The index of the first c in s, 0 when there is none.
IndexOf(s, c) ==
    IF \E i \in 1..Len(s) : s[i] = c
    THEN CHOOSE i \in 1..Len(s) : s[i] = c /\ \A j \in 1..(i - 1) : s[j] # c
    ELSE 0

\* strings.Split(s, sep) for a one-token separator.
RECURSIVE Split(_, _)
Split(s, sep) ==
    LET i == IndexOf(s, sep) IN
    IF i = 0 THEN <<s>>
    ELSE <<SubSeq(s, 1, i - 1)>> \o Split(SubSeq(s, i + 1, Len(s)), sep)

IsNumber(ds) == Len(ds) >= 1 /\ \A i \in 1..Len(ds) : IsDigit(ds[i])

\* semver.NewVersion: ok, and the parsed components when ok.
SemverParse(str) ==
    LET s == IF Len(str) >= 1 /\ str[1] = "v" THEN Tail(str) ELSE str
        plus == IndexOf(s, "+")
        core == IF plus = 0 THEN s ELSE SubSeq(s, 1, plus - 1)
        build == IF plus = 0 THEN <<>> ELSE SubSeq(s, plus + 1, Len(s))
        parts == Split(core, ".")
        ok == /\ Len(parts) \in 1..3
              /\ \A i \in 1..Len(parts) : IsNumber(parts[i])
              /\ (plus # 0 => Len(build) >= 1)
        num(i) == IF i <= Len(parts) THEN DecValue(parts[i]) ELSE 0
    IN IF ok
       THEN [ok |-> TRUE, major |-> num(1), minor |-> num(2), patch |-> num(3),
             metadata |-> build]
       ELSE [ok |-> FALSE, major |-> 0, minor |-> 0, patch |-> 0, metadata |-> <<>>]

\* Version.Compare: precedence by major, minor, patch; build metadata is ignored.
SemverCompare(a, b) ==
    CASE a.major # b.major -> IF a.major > b.major THEN 1 ELSE -1
      [] a.minor # b.minor -> IF a.minor > b.minor THEN 1 ELSE -1
      [] a.patch # b.patch -> IF a.patch > b.patch THEN 1 ELSE -1
      [] OTHER -> 0

\* The order of the characters of this model in ASCII.
AsciiOrder == <<"+", ".">> \o DigitChars \o <<"@", "b", "v", "x">>

CharRank(c) == CHOOSE i \in 1..Len(AsciiOrder) : AsciiOrder[i] = c

\* Go's s > t on strings.
RECURSIVE StringGreater(_, _)
StringGreater(s, t) ==
    IF s = <<>> THEN FALSE
    ELSE IF t = <<>> THEN TRUE
    ELSE IF s[1] # t[1] THEN CharRank(s[1]) > CharRank(t[1])
    ELSE StringGreater(Tail(s), Tail(t))

VersionGreaterAsStrings(depVersion, existsVersion) ==
    StringGreater(depVersion, existsVersion)

\* semver.MustParse(dep.Version).GreaterThan(semver.MustParse(exists.Version)),
\* for two strings that parse.
VersionGreater(depVersion, existsVersion) ==
    SemverCompare(SemverParse(depVersion), SemverParse(existsVersion)) = 1

-----------------------------------------------------------------------------
(* Resolver.MajorVersionPackage and Resolver.Deduplicate *)

\* fmt.Sprintf("%x", n)
RECURSIVE Hex(_)
Hex(n) ==
    IF n < 16 THEN <<HexChars[n + 1]>>
    ELSE Hex(n \div 16) \o <<HexChars[(n % 16) + 1]>>

\* strings.Replace(s, old, "", 1): s without the first occurrence of old.
ReplaceFirst(s, old) ==
    LET n == Len(old)
        At(i) == i + n - 1 <= Len(s) /\ SubSeq(s, i, i + n - 1) = old
    IN IF \E i \in 1..Len(s) : At(i)
       THEN LET i == CHOOSE k \in 1..Len(s) : At(k) /\ \A j \in 1..(k - 1) : ~At(j)
            IN SubSeq(s, 1, i - 1) \o SubSeq(s, i + n, Len(s))
       ELSE s

\* The key of the package line of metadata: an error when PackageUri does not
\* parse, a panic (semver.MustParse) when Version does not parse.
MajorVersionPackage(metadata) ==
    IF ~UrlParses(metadata.PackageUri) THEN Failure("url.Parse")
    ELSE LET baseUri == UrlParse(metadata.PackageUri)
             path == ReplaceFirst(baseUri.Path, <<"@">> \o metadata.Version)
             versionParsed == SemverParse(metadata.Version)
         IN IF ~versionParsed.ok THEN Panic("semver.MustParse")
            ELSE [kind |-> "ok",
                  key |-> UrlString([Scheme |-> "package", Host |-> baseUri.Host,
                                     Path |-> path \o <<"@">> \o Hex(versionParsed.major)])]

LineOfEntryByKey(m, u) == MajorVersionPackage([m[u] EXCEPT !.PackageUri = u])

\* depVersion, err := r.MajorVersionPackage(dep), for the entry of m under key u
\* (the loop ranges over the values and never reads the key).
LineOfEntry(m, u) == MajorVersionPackage(m[u])

\* versioned after the loop body ran for dep, whose line key is depVersion.
Keep(versioned, depVersion, dep) ==
    IF depVersion \notin DOMAIN versioned
    THEN MapPut(versioned, depVersion, dep)
    ELSE IF VersionGreater(dep.Version, versioned[depVersion].Version)
         THEN MapPut(versioned, depVersion, dep)
         ELSE versioned

\* A metadata as Deduplicate reads it.
Md(name, packageUri, version) ==
    [ZeroMetadata EXCEPT !.Name = name, !.PackageUri = packageUri, !.Version = version]

\* A well-formed metadata of package name at version, reached under scheme.
Pkg(scheme, host, name, version) ==
    Md(name, PkgUri(scheme, host, name, version), version)

\* The entries a caller can pass: key (the dependency URI, or the PackageUri)
\* and metadata.
DedupPool ==
    { [key |-> PkgUri("package", "h", "n", V100), md |-> Pkg("package", "h", "n", V100)],
      [key |-> PkgUri("package", "h", "n", V120), md |-> Pkg("package", "h", "n", V120)],
      [key |-> PkgUri("package", "h", "n", V1100), md |-> Pkg("package", "h", "n", V1100)],
      [key |-> PkgUri("package", "h", "n", V200), md |-> Pkg("package", "h", "n", V200)],
      [key |-> PkgUri("package", "h", "n", V1000), md |-> Pkg("package", "h", "n", V1000)],
      [key |-> PkgUri("package", "h", "m", V100), md |-> Pkg("package", "h", "m", V100)],
      \* the same package line under another scheme, and with build metadata
      [key |-> PkgUri("https", "h", "n", V120), md |-> Pkg("https", "h", "n", V120)],
      [key |-> PkgUri("package", "h", "n", V120b), md |-> Pkg("package", "h", "n", V120b)],
      \* a package served under a URI that is not its PackageUri
      [key |-> PkgUri("package", "mirror", "n", V100), md |-> Pkg("package", "h", "n", V100)],
      \* a Version that is not the one in the PackageUri
      [key |-> PkgUri("package", "h", "k", V100),
       md |-> Md("k", PkgUri("package", "h", "k", V100), V200)],
      \* a Version that is no semantic version, a PackageUri that is no URI
      [key |-> PkgUri("package", "h", "n", VBad), md |-> Pkg("package", "h", "n", VBad)],
      [key |-> PkgUri("package", "h", "q", V100),
       md |-> Md("q", <<"://", "h", "/", "q", "@">> \o V100, V100)] }

DedupInputs ==
    {[k \in {e.key : e \in S} |-> (CHOOSE e \in S : e.key = k).md] :
        S \in {T \in SUBSET DedupPool :
                 /\ Cardinality(T) \in 1..MaxIn
                 /\ \A e1, e2 \in T : e1.key = e2.key => e1 = e2}}

\* The caller invokes r.Deduplicate(dependecies).
CallDeduplicate ==
    /\ dpc = "idle" /\ dPass = 0
    /\ dPass' = 1
    /\ dIn' = dOrig
    /\ dTodo' = DOMAIN dOrig
    /\ dpc' = IF DOMAIN dOrig = {} THEN "done" ELSE "loop"
    /\ UNCHANGED <<dOrig, dVersioned, dRekey, dResult, dFirst, notDedup>>

\* One iteration of the first loop, for an entry whose line key is computed.
DedupVisit ==
    /\ dpc = "loop" /\ dPass > 0
    /\ \E u \in dTodo :
          LET line == LineOfEntry(dIn, u) IN
          /\ line.kind = "ok"
          /\ dVersioned' = Keep(dVersioned, line.key, dIn[u])
          /\ dTodo' = dTodo \ {u}
          /\ IF dTodo' = {}
             THEN dpc' = "rekey" /\ dRekey' = DOMAIN dVersioned'
             ELSE UNCHANGED <<dpc, dRekey>>
    /\ UNCHANGED <<dOrig, dIn, dResult, dPass, dFirst, notDedup>>

\* One iteration for an entry whose PackageUri does not parse: return nil, err.
DedupVisitErr ==
    /\ dpc = "loop" /\ dPass > 0
    /\ \E u \in dTodo :
          /\ LineOfEntry(dIn, u).kind = "err"
          /\ dTodo' = dTodo \ {u}
    /\ dpc' = "error"
    /\ UNCHANGED <<dOrig, dIn, dVersioned, dRekey, dResult, dPass, dFirst, notDedup>>

\* One iteration for an entry whose Version does not parse: MustParse panics.
DedupVisitPanic ==
    /\ dpc = "loop" /\ dPass > 0
    /\ \E u \in dTodo :
          /\ LineOfEntry(dIn, u).kind = "panic"
          /\ dTodo' = dTodo \ {u}
    /\ dpc' = "panic"
    /\ UNCHANGED <<dOrig, dIn, dVersioned, dRekey, dResult, dPass, dFirst, notDedup>>

\* One iteration of the second loop: result[dep.PackageUri] = dep; after the
\* last one Deduplicate returns result, nil.
DedupRekey ==
    /\ dpc = "rekey"
    /\ \E line \in dRekey :
          LET dep == dVersioned[line] IN
          /\ dResult' = MapPut(dResult, dep.PackageUri, dep)
          /\ dRekey' = dRekey \ {line}
          /\ dpc' = IF dRekey' = {} THEN "done" ELSE "rekey"
    /\ UNCHANGED <<dOrig, dIn, dTodo, dVersioned, dPass, dFirst, notDedup>>

\* The caller passes what Deduplicate returned to Deduplicate again.
CallDeduplicateAgain ==
    /\ dpc = "done" /\ dPass = 1
    /\ dFirst' = dResult
    /\ dIn' = dResult
    /\ dTodo' = DOMAIN dResult
    /\ dVersioned' = EmptyMap
    /\ dResult' = EmptyMap
    /\ dRekey' = {}
    /\ dpc' = IF DOMAIN dResult = {} THEN "done" ELSE "loop"
    /\ dPass' = 2
    /\ UNCHANGED <<dOrig, notDedup>>

DedupInit ==
    /\ NewResolver /\ NewAppConfig /\ NoTransportCall /\ NoDownload
    /\ dOrig \in DedupInputs
    /\ dIn = EmptyMap /\ dTodo = {} /\ dVersioned = EmptyMap
    /\ dRekey = {} /\ dResult = EmptyMap /\ dpc = "idle" /\ dPass = 0
    /\ dFirst = EmptyMap

DedupNext ==
    \/ CallDeduplicate
    \/ DedupVisit
    \/ DedupVisitErr
    \/ DedupVisitPanic
    \/ DedupRekey
    \/ CallDeduplicateAgain

DedupSpec == DedupInit /\ [][DedupNext]_vars

-----------------------------------------------------------------------------
(* Resolver.Exists and Resolver.Download *)

\* filepath.Join(appConfig.CacheDir, "package-2")
BasePath == <<"cache", "/package-2">>

\* pklutils.PklGetRelativePath(basePath, uri): the directory of a package,
\* derived from the URI's host and path (package and version).
PklGetRelativePath(basePath, uri) == basePath \o <<"/", uri.Host>> \o uri.Path

\* fmt.Sprintf("%s@%s.json", m.Name, m.Version), and the same with .zip
FileName(m, ext) == <<m.Name, "@">> \o m.Version \o <<ext>>

\* The directory Exists looks for.
ExistsPath(metadata) == PklGetRelativePath(BasePath, UrlParse(metadata.PackageUri))

\* The directory Download writes the package stored under key u to.
DownloadPath(u, m) == PklGetRelativePath(BasePath, UrlParse(u))

\* Exists(metadata): an error when PackageUri does not parse, else whether
\* the directory is on disk.
Exists(metadata) ==
    IF ~UrlParses(metadata.PackageUri) THEN [err |-> TRUE, e |-> FALSE]
    ELSE [err |-> FALSE, e |-> ExistsPath(metadata) \in dirs]

\* A metadata as a transport returned it.
Resolved(md, type) ==
    [md EXCEPT !.ResolverType = type,
               !.PackageZipUrl = ZipUrlOf(md.PackageUri),
               !.Source = [kind |-> "object", packageUri |-> md.PackageUri],
               !.Checksum = Sha256([kind |-> "object", packageUri |-> md.PackageUri])]

\* The entries a caller can pass to Download: keyed by PackageUri (as
\* Deduplicate returns them) or by the dependency URI (as Resolve does).
DownloadPool ==
    { [key |-> PkgUri("package", "h", "n", V100),
       md |-> Resolved(Pkg("package", "h", "n", V100), HTTP)],
      [key |-> PkgUri("package", "h", "m", V120),
       md |-> Resolved(Pkg("package", "h", "m", V120), OCI)],
      [key |-> PkgUri("https", "h", "k", V100),
       md |-> Resolved(Pkg("package", "h", "k", V100), HTTP)],
      [key |-> PkgUri("package", "mirror", "p", V100),
       md |-> Resolved(Pkg("package", "h", "p", V100), HTTP)],
      [key |-> PkgUri("package", "h", "q", V100),
       md |-> Resolved(Md("q", <<"://", "h", "/", "q", "@">> \o V100, V100), HTTP)],
      [key |-> <<"://", "h", "/", "r", "@">> \o V100,
       md |-> Resolved(Pkg("package", "h", "r", V100), HTTP)] }

DownloadInputs ==
    {[k \in {e.key : e \in S} |-> (CHOOSE e \in S : e.key = k).md] :
        S \in {T \in SUBSET DownloadPool :
                 /\ Cardinality(T) <= MaxBatch
                 /\ \A e1, e2 \in T : e1.key = e2.key => e1 = e2}}

\* What a failed os.WriteFile leaves: no file, or a file cut short.
\* A variant in which a failed write takes the rest of the cache with it.
AfterFailedWriteWipes(fs, path) == {EmptyMap}

AfterFailedWrite(fs, path) == {fs, MapPut(fs, path, [kind |-> "partial"])}

\* Whether the loop goes on after the entry under u.
LoopPc(todo) == IF todo = {} THEN "done" ELSE "loop"

\* The caller invokes r.Download(dependencies).
CallDownload ==
    /\ lpc \in {"idle", "done", "error"}
    /\ lRun < MaxRuns
    /\ lRun' = lRun + 1
    /\ lTodo' = DOMAIN batch
    /\ lpc' = LoopPc(DOMAIN batch)
    /\ lArchives' = 0
    /\ lPrevOk' = (lpc = "done")
    /\ lEverFailed' = (lEverFailed \/ lpc = "error")
    /\ UNCHANGED <<batch, dirs, files, notDownload>>

\* One iteration for a package whose directory exists: nothing is done.
DownloadSkip ==
    /\ lpc = "loop"
    /\ \E u \in lTodo :
          /\ ~Exists(batch[u]).err /\ Exists(batch[u]).e
          /\ lTodo' = lTodo \ {u}
          /\ lpc' = LoopPc(lTodo')
    /\ UNCHANGED <<batch, dirs, files, lRun, lArchives, lPrevOk, lEverFailed, notDownload>>

\* One iteration where Exists returns an error: Download returns it.
DownloadExistsErr ==
    /\ lpc = "loop"
    /\ \E u \in lTodo :
          /\ Exists(batch[u]).err
          /\ lTodo' = lTodo \ {u}
    /\ lpc' = "error"
    /\ UNCHANGED <<batch, dirs, files, lRun, lArchives, lPrevOk, lEverFailed, notDownload>>

\* One iteration where ResolveArchive returns an error.
DownloadArchiveErr ==
    /\ lpc = "loop"
    /\ \E u \in lTodo, neterr \in ArchiveOutcomes :
          /\ ~Exists(batch[u]).err /\ ~Exists(batch[u]).e
          /\ ResolveArchive(batch[u], neterr).kind = "err"
          /\ lTodo' = lTodo \ {u}
    /\ lArchives' = lArchives + 1
    /\ lpc' = "error"
    /\ UNCHANGED <<batch, dirs, files, lRun, lPrevOk, lEverFailed, notDownload>>

\* One iteration where the archive was fetched and the key u does not parse.
DownloadKeyErr ==
    /\ lpc = "loop"
    /\ \E u \in lTodo, neterr \in ArchiveOutcomes :
          /\ ~Exists(batch[u]).err /\ ~Exists(batch[u]).e
          /\ ResolveArchive(batch[u], neterr).kind = "ok"
          /\ ~UrlParses(u)
          /\ lTodo' = lTodo \ {u}
    /\ lArchives' = lArchives + 1
    /\ lpc' = "error"
    /\ UNCHANGED <<batch, dirs, files, lRun, lPrevOk, lEverFailed, notDownload>>

\* One iteration where os.MkdirAll fails.
DownloadMkdirErr ==
    /\ lpc = "loop"
    /\ \E u \in lTodo, neterr \in ArchiveOutcomes :
          /\ ~Exists(batch[u]).err /\ ~Exists(batch[u]).e
          /\ ResolveArchive(batch[u], neterr).kind = "ok"
          /\ UrlParses(u)
          /\ lTodo' = lTodo \ {u}
    /\ lArchives' = lArchives + 1
    /\ lpc' = "error"
    /\ UNCHANGED <<batch, dirs, files, lRun, lPrevOk, lEverFailed, notDownload>>

\* One iteration where the directory is made and writing the .json file fails.
DownloadMetaWriteErr ==
    /\ lpc = "loop"
    /\ \E u \in lTodo, neterr \in ArchiveOutcomes :
          LET m == batch[u]
              basePath == DownloadPath(u, m)
          IN
          /\ ~Exists(m).err /\ ~Exists(m).e
          /\ ResolveArchive(m, neterr).kind = "ok"
          /\ UrlParses(u)
          /\ dirs' = dirs \cup {basePath}
          /\ files' \in AfterFailedWrite(files, <<basePath, FileName(m, ".json")>>)
          /\ lTodo' = lTodo \ {u}
    /\ lArchives' = lArchives + 1
    /\ lpc' = "error"
    /\ UNCHANGED <<batch, lRun, lPrevOk, lEverFailed, notDownload>>

\* One iteration where the .json file is written and writing the .zip fails.
DownloadArchiveWriteErr ==
    /\ lpc = "loop"
    /\ \E u \in lTodo, neterr \in ArchiveOutcomes :
          LET m == batch[u]
              basePath == DownloadPath(u, m)
          IN
          /\ ~Exists(m).err /\ ~Exists(m).e
          /\ ResolveArchive(m, neterr).kind = "ok"
          /\ UrlParses(u)
          /\ dirs' = dirs \cup {basePath}
          /\ files' \in AfterFailedWrite(
                            MapPut(files, <<basePath, FileName(m, ".json")>>, m.Source),
                            <<basePath, FileName(m, ".zip")>>)
          /\ lTodo' = lTodo \ {u}
    /\ lArchives' = lArchives + 1
    /\ lpc' = "error"
    /\ UNCHANGED <<batch, lRun, lPrevOk, lEverFailed, notDownload>>

\* One iteration that fetches the archive and writes both files.
DownloadStore ==
    /\ lpc = "loop"
    /\ \E u \in lTodo, neterr \in ArchiveOutcomes :
          LET m == batch[u]
              basePath == DownloadPath(u, m)
              got == ResolveArchive(m, neterr)
          IN
          /\ ~Exists(m).err /\ ~Exists(m).e
          /\ got.kind = "ok"
          /\ UrlParses(u)
          /\ dirs' = dirs \cup {basePath}
          /\ files' = MapPut(MapPut(files, <<basePath, FileName(m, ".json")>>, m.Source),
                             <<basePath, FileName(m, ".zip")>>, got.bytes)
          /\ lTodo' = lTodo \ {u}
          /\ lpc' = LoopPc(lTodo')
    /\ lArchives' = lArchives + 1
    /\ UNCHANGED <<batch, lRun, lPrevOk, lEverFailed, notDownload>>

DownloadInit ==
    /\ NewResolver /\ NewAppConfig /\ NoTransportCall /\ NoDedup
    /\ batch \in DownloadInputs
    /\ dirs = {} /\ files = EmptyMap /\ lTodo = {}
    /\ lpc = "idle" /\ lRun = 0 /\ lArchives = 0 /\ lPrevOk = FALSE
    /\ lEverFailed = FALSE

DownloadNext ==
    \/ CallDownload
    \/ DownloadSkip
    \/ DownloadExistsErr
    \/ DownloadArchiveErr
    \/ DownloadKeyErr
    \/ DownloadMkdirErr
    \/ DownloadMetaWriteErr
    \/ DownloadArchiveWriteErr
    \/ DownloadStore

DownloadSpec == DownloadInit /\ [][DownloadNext]_vars

-----------------------------------------------------------------------------
(* A transport call on its own *)

BadUri == <<"://", "h", "/", "a", "@">> \o V100

TransportInputs ==
    UNION {[transport : {OCI, HTTP}, uri : {u}, plainHttp : BOOLEAN, resp : Responses(u)] :
             u \in {UriA, BadUri}}

\* resolver.ResolveMetadata(uri, plainHttp) is called and returns (or panics).
TransportCall ==
    /\ tOut.kind = "none"
    /\ tOut' = ResolveMetadata(tIn.transport, config.PlainHttp, tIn.uri,
                               tIn.plainHttp, tIn.resp)
    /\ UNCHANGED <<tIn, config, notTransport>>

TransportInit ==
    /\ NewResolver /\ NoDedup /\ NoDownload
    /\ config \in [PlainHttp : BOOLEAN]
    /\ tIn \in TransportInputs
    /\ tOut = [kind |-> "none"]

TransportNext == TransportCall

TransportSpec == TransportInit /\ [][TransportNext]_vars

-----------------------------------------------------------------------------
(* Resolve calls on one resolver *)

Init == NewResolver /\ NewAppConfig /\ NoTransportCall /\ NoDedup /\ NoDownload

Next ==
    \/ CallResolve
    \/ IterCached
    \/ IterFetchOk
    \/ IterFetchErr
    \/ IterFetchPanic
    \/ ReturnOk
    \/ ReturnErr

Spec == Init /\ [][Next]_vars

\* One Resolve call on a fresh resolver. Resolve runs on one goroutine that
\* executes its next statement whenever it has one: a step that stays enabled
\* is eventually taken.
FirstCall == calls = 0 /\ CallResolve

FreshNext ==
    \/ FirstCall
    \/ IterCached
    \/ IterFetchOk
    \/ IterFetchErr
    \/ IterFetchPanic
    \/ ReturnOk
    \/ ReturnErr

FairSpec == Init /\ [][FreshNext]_vars /\ WF_vars(FreshNext)

\* Two goroutines, each calling Resolve once on the one new resolver.
GoSpec == Init /\ [][GoNext]_vars

-----------------------------------------------------------------------------
(* The dependency graph the remote has served so far *)

Edges(u) ==
    IF u \in DOMAIN cache
    THEN {cache[u].Dependencies[n].Uri : n \in DOMAIN cache[u].Dependencies}
    ELSE {}

RECURSIVE ReachFrom(_)
ReachFrom(S) ==
    LET N == S \cup UNION {Edges(u) : u \in S}
    IN IF N = S THEN S ELSE ReachFrom(N)

RootUris == {roots[n].Uri : n \in DOMAIN roots}

Reachable == ReachFrom(RootUris)

OnCycle(u) == u \in ReachFrom(Edges(u))

ReturnedOk == rstate = "idle" /\ ret.kind = "ok"

-----------------------------------------------------------------------------
(* Properties of Resolve *)

Acyclic == \A u \in Reachable : ~OnCycle(u)

\* C1: on a fresh resolver, for an acyclic dependency graph, a Resolve call
\* that returns without error returns a map whose key set is exactly the set
\* of URIs reachable from the roots (roots included), and each key maps to
\* the one metadata memoized for that URI.
C1_ResolveReturnsReachable ==
    (ReturnedOk /\ fresh /\ Acyclic) =>
        /\ DOMAIN ret.result = Reachable
        /\ \A u \in DOMAIN ret.result : ret.result[u] = cache[u]

\* Some URI is a dependency of two different places of the graph.
InDegree(u) ==
    Cardinality({n \in DOMAIN roots : roots[n].Uri = u})
    + Cardinality({v \in DOMAIN cache : u \in Edges(v)})

C1_Witness ==
    /\ ReturnedOk /\ fresh /\ Acyclic
    /\ Cardinality(Reachable) = 3
    /\ \E u \in Reachable : InDegree(u) >= 2
    /\ \E u \in Reachable : u \notin RootUris

Busy == rstate \in {"running", "failing"}

\* C2: Resolve terminates on every graph, cyclic ones included: the recursion
\* is never deeper than the number of memoized URIs plus one, every call that
\* is running eventually ends, and after a call on a fresh resolver that
\* returned without error every reachable URI that lies on a cycle is a key
\* of the result.
C2_ResolveTerminatesOnCycles ==
    /\ [](Len(stack) <= Cardinality(DOMAIN cache) + 1)
    /\ [](Busy => <>(~Busy))
    /\ []((ReturnedOk /\ fresh) =>
            \A u \in Reachable : OnCycle(u) => u \in DOMAIN ret.result)

\* A call on a cycle through another package has returned: the root lies on
\* a cycle that is not a self-dependency.
C2_Witness ==
    /\ ReturnedOk /\ fresh
    /\ \E u \in RootUris : OnCycle(u) /\ u \notin Edges(u)
    /\ \E u \in Reachable : u \in Edges(u)

\* C3: over the lifetime of the resolver no URI's metadata is successfully
\* fetched twice; an invocation on some metadata's dependencies runs only
\* while that metadata's URI is memoized; and no step fetches a URI that was
\* memoized before the step.
C3_FetchedAtMostOnce ==
    /\ [](\A u \in Uris : fetched[u] <= 1)
    /\ [](\A i \in 1..Len(stack) :
            stack[i].of # <<>> =>
                /\ stack[i].of \in DOMAIN cache
                /\ cache[stack[i].of].Dependencies = stack[i].deps)
    /\ [][\A u \in DOMAIN cache : fetched'[u] = fetched[u]]_vars

\* In a second call on the same resolver, the invocation on some metadata's
\* dependencies met that metadata's own URI again and took it from the cache.
C3_Witness ==
    /\ calls = 2 /\ ~fresh
    /\ rstate = "running"
    /\ \E i \in 1..Len(stack) :
          stack[i].of # <<>> /\ stack[i].of \in DOMAIN stack[i].result

\* C9: the memo cache holds only URIs whose ResolveMetadata returned
\* metadata; a URI whose ResolveMetadata returned an error in a call has no
\* entry, and that call returns an error; no step removes or replaces an
\* entry of the cache.
C9_CacheOnlySuccessful ==
    /\ [](\A u \in DOMAIN cache : fetched[u] >= 1)
    /\ [](failedUri \cap DOMAIN cache = {})
    /\ []((rstate = "idle" /\ failedUri # {}) => ret.kind = "err")
    /\ [][\A u \in DOMAIN cache : u \in DOMAIN cache' /\ cache'[u] = cache[u]]_vars

\* A call failed on one URI after it had memoized another.
C9_Witness ==
    /\ rstate = "idle" /\ ret.kind = "err"
    /\ failedUri # {}
    /\ calls = 1
    /\ DOMAIN cache # {}

\* C11: in every Metadata of the memo cache, of a running invocation's result
\* and of a returned result, and in every dependencies map a nested
\* invocation of Resolve works on, each entry's Name is the key it is stored
\* under.
NamesAreKeys(deps) == \A k \in DOMAIN deps : deps[k].Name = k

C11_NamesBackFilled ==
    /\ \A u \in DOMAIN cache : NamesAreKeys(cache[u].Dependencies)
    /\ \A i \in 1..Len(stack) :
          /\ stack[i].of # <<>> => NamesAreKeys(stack[i].deps)
          /\ \A u \in DOMAIN stack[i].result :
                NamesAreKeys(stack[i].result[u].Dependencies)
    /\ ret.kind = "ok" =>
          \A u \in DOMAIN ret.result : NamesAreKeys(ret.result[u].Dependencies)

\* A returned result holds a metadata with two dependencies, whose document
\* carried no names.
C11_Witness ==
    /\ ReturnedOk
    /\ \E u \in DOMAIN ret.result :
          /\ Cardinality(DOMAIN ret.result[u].Dependencies) = 2
          /\ \A k \in DOMAIN ret.result[u].Source.dependencies :
                ret.result[u].Source.dependencies[k].Name # k

\* C12: a Resolve call that returns without error returns a map closed under
\* dependencies, whatever the memo cache held when the call started: the URI
\* of every dependency of every metadata of the result is a key of the result.
C12_ResultClosedUnderDependencies ==
    ReturnedOk =>
        \A u \in DOMAIN ret.result :
            \A k \in DOMAIN ret.result[u].Dependencies :
                ret.result[u].Dependencies[k].Uri \in DOMAIN ret.result

\* C13: from the moment a ResolveMetadata call of a Resolve call returned an
\* error until that Resolve call is over, no step makes a ResolveMetadata
\* call (none returns Metadata, none returns an error, none panics), every
\* step is the return of the innermost invocation, and the outermost
\* invocation returns the error and no result.
Failed == failedUri # {} /\ rstate # "idle"

C13_FailFast ==
    /\ [](Cardinality(failedUri) <= 1)
    /\ [][Failed =>
            /\ fetched' = fetched
            /\ failedUri' = failedUri
            /\ rstate' # "crashed"
            /\ Len(stack') = Len(stack) - 1
            /\ (Len(stack) = 1 => rstate' = "idle" /\ ret' = [kind |-> "err"])]_vars

\* The error came up in a nested invocation while an enclosing one still had
\* a dependency to fetch.
C13_Witness ==
    /\ rstate = "failing"
    /\ Len(stack) >= 2
    /\ \E n \in stack[1].todo : ~Memoized(cache, stack[1].deps[n].Uri)

\* The dependencies a returned call met: its roots and the dependencies of
\* the metadata it returned.
Encountered ==
    Range(roots) \cup
    UNION {Range(ret.result[u].Dependencies) : u \in DOMAIN ret.result}

\* C14: for every dependency a returned Resolve call met, the Metadata the
\* call returned for the dependency's URI was produced by the Registry
\* transport exactly when the alias ends with ".oci"; and, for Metadata of the
\* Plain-HTTP transport, which records the preference it was fetched with,
\* the recorded preference is set exactly when the alias contains ".plain".
C14_RoutingFollowsAlias ==
    ReturnedOk =>
        \A d \in Encountered :
            d.Uri \in DOMAIN ret.result =>
                LET md == ret.result[d.Uri] IN
                /\ (md.ResolverType = OCI) <=> HasSuffix(d.Name, ".oci")
                /\ md.ResolverType = HTTP =>
                      (md.PlainHttp <=> Contains(d.Name, ".plain"))

\* C17: with two goroutines calling Resolve on one resolver, a URI's metadata
\* is fetched more than once only when both goroutines found the URI absent
\* from the memo cache before either had inserted it (without that overlap
\* the at-most-once guarantee stands), and no URI is fetched more often than
\* there are goroutines. The witness below is the interleaving of the claim.
C17_TwiceOnlyWhenBothSawAbsent ==
    \A u \in Uris :
        /\ fetched[u] >= 2 => u \in raced
        /\ fetched[u] <= Cardinality(Goroutines)

\* Both calls have returned without error, and some URI that both goroutines
\* found absent before either inserted it was fetched twice.
C17_Witness ==
    /\ \A g \in Goroutines : gos[g].pc = "done"
    /\ \E u \in raced : fetched[u] = 2 /\ u \in DOMAIN cache

-----------------------------------------------------------------------------
(* Properties of Deduplicate *)

\* A metadata is well formed when its PackageUri is a URI that ends in
\* "@" and its Version, and its Version is a semantic version.
WellFormed(md) ==
    /\ UrlParses(md.PackageUri)
    /\ SemverParse(md.Version).ok
    /\ Len(md.PackageUri) > Len(md.Version) + 3
    /\ SubSeq(md.PackageUri, Len(md.PackageUri) - Len(md.Version), Len(md.PackageUri))
         = <<"@">> \o md.Version

\* The package a well-formed metadata is a version of: host and path, without
\* the scheme and without the version.
Identity(md) ==
    SubSeq(md.PackageUri, 3, Len(md.PackageUri) - Len(md.Version) - 1)

SameLine(a, b) ==
    /\ Identity(a) = Identity(b)
    /\ SemverParse(a.Version).major = SemverParse(b.Version).major

Precedence(a, b) == SemverCompare(SemverParse(a.Version), SemverParse(b.Version))

DedupReturned(pass) == dpc = "done" /\ dPass = pass

\* C4: for an input of well-formed metadata, Deduplicate returns exactly one
\* entry per package line of the input; the entry is an input metadata that no
\* input metadata of its line exceeds in semver precedence, and it is keyed
\* by its own PackageUri.
C4_DeduplicateKeepsGreatest ==
    (DedupReturned(1) /\ \A u \in DOMAIN dOrig : WellFormed(dOrig[u])) =>
        /\ \A k \in DOMAIN dResult :
              /\ dResult[k] \in Range(dOrig)
              /\ dResult[k].PackageUri = k
              /\ \A u \in DOMAIN dOrig :
                    SameLine(dOrig[u], dResult[k]) => Precedence(dOrig[u], dResult[k]) <= 0
        /\ \A u \in DOMAIN dOrig :
              Cardinality({k \in DOMAIN dResult : SameLine(dResult[k], dOrig[u])}) = 1

\* 1.2.0, 1.10.0 and 2.0.0 of one package went in; 1.10.0 and 2.0.0 came out.
C4_Witness ==
    /\ DedupReturned(1)
    /\ DOMAIN dOrig = {PkgUri("package", "h", "n", V120),
                       PkgUri("package", "h", "n", V1100),
                       PkgUri("package", "h", "n", V200)}
    /\ DOMAIN dResult = {PkgUri("package", "h", "n", V1100),
                         PkgUri("package", "h", "n", V200)}

\* C5: Deduplicate applied to what Deduplicate returned returns the same map.
C5_DeduplicateIdempotent ==
    DedupReturned(2) => dResult = dFirst

\* The second application ran on a result that had collapsed three entries,
\* one of them stored under a key that is not its PackageUri, into two.
C5_Witness ==
    /\ DedupReturned(2)
    /\ Cardinality(DOMAIN dOrig) = 3
    /\ \E u \in DOMAIN dOrig : dOrig[u].PackageUri # u
    /\ Cardinality(DOMAIN dFirst) = 2

Malformed(md) == ~UrlParses(md.PackageUri) \/ ~SemverParse(md.Version).ok

\* C10: whenever some metadata of the input has a PackageUri that is no URI
\* or a Version that is no semantic version, Deduplicate ends by returning an
\* error and no result; it does not panic.
C10_MalformedInputIsReturnedError ==
    (dPass = 1 /\ dpc \in {"done", "error", "panic"}
        /\ \E u \in DOMAIN dOrig : Malformed(dOrig[u]))
    => (dpc = "error" /\ dResult = EmptyMap)

\* The decimal rendering of a natural number, one digit per token.
RECURSIVE Decimal(_)
Decimal(n) ==
    IF n < 10 THEN <<DigitChars[n + 1]>>
    ELSE Decimal(n \div 10) \o <<DigitChars[(n % 10) + 1]>>

EndsWith(s, t) == Len(s) >= Len(t) /\ SubSeq(s, Len(s) - Len(t) + 1, Len(s)) = t

\* C16: every key MajorVersionPackage produced for an entry Deduplicate kept
\* ends with "@" and the decimal rendering of the major component of the
\* entry's version.
C16_MajorRenderedDecimal ==
    \A k \in DOMAIN dVersioned :
        EndsWith(k, <<"@">> \o Decimal(SemverParse(dVersioned[k].Version).major))

\* Deduplicate run with both of its loops visiting the entries in one fixed
\* order (the order CHOOSE picks).
RECURSIVE VersionedInOrder(_, _, _)
VersionedInOrder(m, versioned, todo) ==
    IF todo = {} THEN versioned
    ELSE LET u == CHOOSE x \in todo : TRUE
         IN VersionedInOrder(m, Keep(versioned, LineOfEntry(m, u).key, m[u]),
                             todo \ {u})

RECURSIVE RekeyedInOrder(_, _, _)
RekeyedInOrder(versioned, result, todo) ==
    IF todo = {} THEN result
    ELSE LET k == CHOOSE x \in todo : TRUE
         IN RekeyedInOrder(versioned,
                           MapPut(result, versioned[k].PackageUri, versioned[k]),
                           todo \ {k})

DeduplicateInOrder(m) ==
    LET versioned == VersionedInOrder(m, EmptyMap, DOMAIN m)
    IN RekeyedInOrder(versioned, EmptyMap, DOMAIN versioned)

\* C19: the map Deduplicate returns is the same for every order in which its
\* loops visit the entries: whatever order a run took, it returns what the
\* run in the fixed order returns.
C19_DeduplicateOrderIndependent ==
    DedupReturned(1) => dResult = DeduplicateInOrder(dOrig)

-----------------------------------------------------------------------------
(* Properties of Exists and Download *)

\* C6: once Download has returned nil, Exists is true of every metadata of
\* the map, whatever key it is stored under; and a Download call that follows
\* one that returned nil makes no ResolveArchive call.
C6_DownloadThenExists ==
    /\ lpc = "done" =>
          \A u \in DOMAIN batch : ~Exists(batch[u]).err /\ Exists(batch[u]).e
    /\ lPrevOk => lArchives = 0

\* Both files of the package stored under u are on disk, whole, in the
\* directory Download writes to or in the one Exists looks for.
HasBothFiles(u, m) ==
    \E dir \in {DownloadPath(u, m), ExistsPath(m)} :
        /\ <<dir, FileName(m, ".json")>> \in DOMAIN files
        /\ files[<<dir, FileName(m, ".json")>>] = m.Source
        /\ <<dir, FileName(m, ".zip")>> \in DOMAIN files
        /\ files[<<dir, FileName(m, ".zip")>>].kind = "archive"

\* C7: when a Download of the batch returned an error and a later Download
\* of the same batch returns nil, every package of the batch has its .json
\* and its .zip file on disk.
C7_RerunRecovers ==
    (lpc = "done" /\ lEverFailed) =>
        \A u \in DOMAIN batch : HasBothFiles(u, batch[u])

\* The files Download writes for the package stored under u.
FilesOf(u, m) ==
    {<<DownloadPath(u, m), FileName(m, ext)>> : ext \in {".json", ".zip"}}

\* The entries of the batch the running Download call has been through.
Examined == DOMAIN batch \ lTodo

-----------------------------------------------------------------------------
(* Properties of the transports *)

\* C8: a ResolveMetadata call of the Plain-HTTP transport that returns,
\* returns an error for every response status of 300 or more, and Metadata
\* only for a status below 300.
C8_HttpStatusFrom300IsError ==
    (tIn.transport = HTTP /\ tOut.kind \in {"ok", "err"} /\ tIn.resp.status >= 300)
        => tOut.kind = "err"

\* C15: for Metadata the Registry transport returned, Metadata.PlainHttp is
\* set exactly when the metadata was pulled with the plaintext client, and
\* the client ResolveArchive pulls the archive with has the security mode of
\* the client the metadata was pulled with.
C15_ArchiveModeIsMetadataMode ==
    (tIn.transport = OCI /\ tOut.kind = "ok") =>
        LET archive == ResolveArchive(tOut.md, "none") IN
        /\ tOut.md.PlainHttp = (OciClient(tIn.plainHttp) = "plainClient")
        /\ archive.kind = "ok"
        /\ ClientIsPlain(archive.bytes.from[1], config.PlainHttp)
             = ClientIsPlain(OciClient(tIn.plainHttp), config.PlainHttp)

\* C20: a ResolveMetadata call of either transport, whatever bytes the remote
\* answers with, ends by returning an error and no Metadata, or by returning
\* Metadata whose ResolverType is the transport's and whose Source and
\* Checksum are the fetched bytes and their digest; it does not panic.
C20_MetadataOrError ==
    tOut.kind # "none" =>
        \/ tOut.kind = "err"
        \/ /\ tOut.kind = "ok"
           /\ tOut.md.ResolverType = tIn.transport
           /\ tOut.md.Source = tIn.resp.body
           /\ tOut.md.Checksum = Sha256(tIn.resp.body)

====
